---- MODULE Spec2Model ----
(***************************************************************************)
(* TramMate (offline RAG): the answer flow of app.py, the process-wide     *)
(* index cache and retriever configuration of scripts/retriever.py, the    *)
(* alias normaliser, the FAQ matcher of scripts/faq_router.py, the chunker  *)
(* of scripts/make_chunks.py, the metadata post-filter, and the answer     *)
(* chains of the app and of the command-line scripts.                      *)
(*                                                                         *)
(* Text is modelled as a sequence of one-character strings, so that        *)
(* strip(), lower(), the substring test and str.replace() are computed     *)
(* as Python computes them.                                                *)
(***************************************************************************)
EXTENDS Integers, Sequences, FiniteSets, TLC

VARIABLES
    req,        \* per browser session: the script run handling its request
    vsCache,    \* lru_cache of _cached_vs: 0 = empty, else a handle id
    handles,    \* handles[h] = the index content read from disk by load h
    chainCache, \* st.cache_resource of get_chain: key -> handle id, 0 = absent
    chainLock,  \* keys whose get_chain body is being computed (per-key lock)
    disk,       \* the index directory VSDIR: Missing, or its number of chunks
    call        \* the call under study in the function-level specifications

vars == <<req, vsCache, handles, chainCache, chainLock, disk, call>>

----------------------------------------------------------------------------
(* Bounds of the model *)

MaxQueryLen == 3
MaxAliasLen == 2
MaxStreamChunks == 1
MaxIndexChunks == 2

----------------------------------------------------------------------------
(* Text: str.strip, str.lower, "in", str.replace *)

Chars == {"a", "b", "A", " "}

LowerChar(c) == IF c = "A" THEN "a" ELSE c

Lower(s) == [i \in 1..Len(s) |-> LowerChar(s[i])]

RECURSIVE LStrip(_)
LStrip(s) == IF s # <<>> /\ Head(s) = " " THEN LStrip(Tail(s)) ELSE s

RECURSIVE RStrip(_)
RStrip(s) ==
    IF s # <<>> /\ s[Len(s)] = " " THEN RStrip(SubSeq(s, 1, Len(s) - 1)) ELSE s

Strip(s) == RStrip(LStrip(s))

\* text[i .. i+Len(pat)-1] = pat
MatchAt(text, pat, i) ==
    /\ i + Len(pat) - 1 <= Len(text)
    /\ \A j \in 1..Len(pat) : text[i + j - 1] = pat[j]

\* Python: pat in text
Contains(text, pat) == \E i \in 1..(Len(text) + 1) : MatchAt(text, pat, i)

\* Python: text.replace(old, new) for a non-empty old: every non-overlapping
\* occurrence, scanning from the left.
RECURSIVE ReplaceFrom(_, _, _, _)
ReplaceFrom(text, old, new, i) ==
    IF i > Len(text) THEN <<>>
    ELSE IF MatchAt(text, old, i)
         THEN new \o ReplaceFrom(text, old, new, i + Len(old))
         ELSE <<text[i]>> \o ReplaceFrom(text, old, new, i + 1)

Replace(text, old, new) == ReplaceFrom(text, old, new, 1)

\* All texts over alphabet A of length lo..hi
TextsOver(A, lo, hi) == UNION {[1..n -> A] : n \in lo..hi}

----------------------------------------------------------------------------
(* JSON values, as json.loads returns them.  An object keeps its insertion  *)
(* order: its items are <<key, value>> pairs in file order.                 *)

JNull == [t |-> "null", n |-> 0, s |-> <<>>, items |-> <<>>]
JNum(k) == [t |-> "num", n |-> k, s |-> <<>>, items |-> <<>>]
JStr(x) == [t |-> "str", n |-> 0, s |-> x, items |-> <<>>]
JArr(xs) == [t |-> "arr", n |-> 0, s |-> <<>>, items |-> xs]
JObj(kvs) == [t |-> "obj", n |-> 0, s |-> <<>>, items |-> kvs]

\* Python truthiness of a JSON value: "v or default" keeps v iff Truthy(v)
Truthy(v) ==
    CASE v.t = "null" -> FALSE
      [] v.t = "num" -> v.n # 0
      [] v.t = "str" -> v.s # <<>>
      [] OTHER -> v.items # <<>>

\* A file on disk: absent, not parseable as JSON, or holding a JSON value
FileMissing == [state |-> "missing", value |-> JNull]
FileMalformed == [state |-> "malformed", value |-> JNull]
FileJson(v) == [state |-> "json", value |-> v]

\* The outcome of a call: a returned value, or the exception that left it
Ok(v) == [ok |-> TRUE, val |-> v, err |-> "none"]
Raise(e) == [ok |-> FALSE, val |-> <<>>, err |-> e]

----------------------------------------------------------------------------
(* scripts/retriever.py: _load_aliases, preprocess_query *)

\* missing file -> {}; json.loads raising -> {}; else whatever JSON it holds
load_aliases(file) ==
    IF file.state = "missing" THEN Ok(JObj(<<>>))
    ELSE IF file.state = "malformed" THEN Ok(JObj(<<>>))
    ELSE Ok(file.value)

\* "for a in (alist or [])": the values the inner loop visits, or the error
\* of iterating something that is not iterable
AliasIter(alist) ==
    IF ~Truthy(alist) THEN Ok(<<>>)
    ELSE CASE alist.t = "arr" -> Ok(alist.items)
           [] alist.t = "str" -> Ok([i \in 1..Len(alist.s) |-> JStr(<<alist.s[i]>>)])
           [] alist.t = "obj" -> Ok([i \in 1..Len(alist.items) |-> JStr(alist.items[i][1])])
           [] OTHER -> Raise("TypeError")

\* the inner loop over one canonical term's aliases, from position i
RECURSIVE ApplyAliases(_, _, _, _)
ApplyAliases(text, canon, as, i) ==
    IF i > Len(as) THEN Ok(text)
    ELSE LET a == as[i] IN
         IF ~Truthy(a) THEN ApplyAliases(text, canon, as, i + 1)
         ELSE IF a.t # "str" THEN Raise("AttributeError")
         ELSE LET a_l == Lower(a.s) IN
              IF Contains(text, a_l)
              THEN ApplyAliases(Replace(text, a_l, Lower(canon)), canon, as, i + 1)
              ELSE ApplyAliases(text, canon, as, i + 1)

\* the outer loop over alias_map.items(), from entry i
RECURSIVE ApplyEntries(_, _, _)
ApplyEntries(text, kvs, i) ==
    IF i > Len(kvs) THEN Ok(text)
    ELSE LET it == AliasIter(kvs[i][2]) IN
         IF ~it.ok THEN it
         ELSE LET r == ApplyAliases(text, kvs[i][1], it.val, 1) IN
              IF ~r.ok THEN r ELSE ApplyEntries(r.val, kvs, i + 1)

preprocess_query(q, file) ==
    LET base == Strip(q) IN
    IF base = <<>> THEN Ok(<<>>)
    ELSE LET alias_map == load_aliases(file) IN
         IF ~alias_map.ok THEN alias_map
         ELSE IF alias_map.val.t # "obj" THEN Raise("AttributeError")
         ELSE ApplyEntries(Lower(base), alias_map.val.items, 1)

----------------------------------------------------------------------------
(* scripts/faq_router.py: _load_faq_items, maybe_answer_faq *)

\* Python's None where a text is expected (no text is this value)
None == <<"<None>">>

\* dict.get(key): the value stored under key, None when absent
Get(obj, key) ==
    IF \E i \in 1..Len(obj.items) : obj.items[i][1] = key
    THEN obj.items[CHOOSE i \in 1..Len(obj.items) : obj.items[i][1] = key][2]
    ELSE JNull

\* (v or "").strip()
OrEmptyStrip(v) ==
    IF ~Truthy(v) THEN Ok(<<>>)
    ELSE IF v.t = "str" THEN Ok(Strip(v.s))
    ELSE Raise("AttributeError")

\* list(v or []): the elements of an iterable
ListOf(v) ==
    IF ~Truthy(v) THEN Ok(<<>>)
    ELSE CASE v.t = "arr" -> Ok(v.items)
           [] v.t = "str" -> Ok([i \in 1..Len(v.s) |-> JStr(<<v.s[i]>>)])
           [] v.t = "obj" -> Ok([i \in 1..Len(v.items) |-> JStr(v.items[i][1])])
           [] OTHER -> Raise("TypeError")

\* the loop "for alias in aliases" of one row, from position i
RECURSIVE RowItems(_, _, _)
RowItems(aliases, a, i) ==
    IF i > Len(aliases) THEN Ok(<<>>)
    ELSE LET alias == OrEmptyStrip(aliases[i]) IN
         IF ~alias.ok THEN alias
         ELSE LET rest == RowItems(aliases, a, i + 1) IN
              IF ~rest.ok THEN rest
              ELSE IF alias.val # <<>>
                   THEN Ok(<<<<Lower(alias.val), a>>>> \o rest.val)
                   ELSE rest

\* the (variant, answer) pairs one row contributes
FaqRow(row) ==
    IF row.t # "obj" THEN Raise("AttributeError")
    ELSE LET q == OrEmptyStrip(Get(row, <<"q">>))
             a == OrEmptyStrip(Get(row, <<"a">>))
         IN  IF ~q.ok THEN q
             ELSE IF ~a.ok THEN a
             ELSE IF a.val = <<>> THEN Ok(<<>>)
             ELSE LET more == ListOf(Get(row, <<"a", "l", "i", "a", "s", "e", "s">>)) IN
                  IF ~more.ok THEN more
                  ELSE RowItems(<<JStr(q.val)>> \o more.val, a.val, 1)

\* the loop "for row in data or []", from row i
RECURSIVE FaqRows(_, _)
FaqRows(rows, i) ==
    IF i > Len(rows) THEN Ok(<<>>)
    ELSE LET r == FaqRow(rows[i]) IN
         IF ~r.ok THEN r
         ELSE LET rest == FaqRows(rows, i + 1) IN
              IF ~rest.ok THEN rest ELSE Ok(r.val \o rest.val)

FaqsKey == <<"f", "a", "q", "s">>

\* missing file -> []; json.loads is not guarded; {"faqs": [...]} or a bare list
load_faq_items(file) ==
    IF file.state = "missing" THEN Ok(<<>>)
    ELSE IF file.state = "malformed" THEN Raise("JSONDecodeError")
    ELSE LET v == file.value
             data == IF v.t = "obj" /\ \E i \in 1..Len(v.items) : v.items[i][1] = FaqsKey
                     THEN Get(v, FaqsKey) ELSE v
             rows == ListOf(data)
         IN  IF ~rows.ok THEN rows ELSE FaqRows(rows.val, 1)

\* --- rapidfuzz: fuzz.token_sort_ratio and process.extractOne ---

CharOrd(c) ==
    CASE c = " " -> 32 [] c = "A" -> 65 [] c = "a" -> 97 [] c = "b" -> 98
      [] OTHER -> 120

RECURSIVE TextLess(_, _)
TextLess(x, y) ==
    IF y = <<>> THEN FALSE
    ELSE IF x = <<>> THEN TRUE
    ELSE IF Head(x) # Head(y) THEN CharOrd(Head(x)) < CharOrd(Head(y))
    ELSE TextLess(Tail(x), Tail(y))

\* str.split(): the whitespace-separated tokens
RECURSIVE SplitFrom(_, _, _)
SplitFrom(s, i, cur) ==
    IF i > Len(s) THEN (IF cur = <<>> THEN <<>> ELSE <<cur>>)
    ELSE IF s[i] = " "
         THEN (IF cur = <<>> THEN <<>> ELSE <<cur>>) \o SplitFrom(s, i + 1, <<>>)
         ELSE SplitFrom(s, i + 1, Append(cur, s[i]))

Split(s) == SplitFrom(s, 1, <<>>)

RECURSIVE InsertSorted(_, _)
InsertSorted(t, ts) ==
    IF ts = <<>> THEN <<t>>
    ELSE IF TextLess(t, Head(ts)) THEN <<t>> \o ts
    ELSE <<Head(ts)>> \o InsertSorted(t, Tail(ts))

RECURSIVE SortTokens(_)
SortTokens(ts) ==
    IF ts = <<>> THEN <<>> ELSE InsertSorted(Head(ts), SortTokens(Tail(ts)))

RECURSIVE JoinSpace(_)
JoinSpace(ts) ==
    IF ts = <<>> THEN <<>>
    ELSE IF Len(ts) = 1 THEN Head(ts)
    ELSE Head(ts) \o <<" ">> \o JoinSpace(Tail(ts))

RECURSIVE LCS(_, _)
LCS(x, y) ==
    IF x = <<>> \/ y = <<>> THEN 0
    ELSE IF Head(x) = Head(y) THEN 1 + LCS(Tail(x), Tail(y))
    ELSE LET l == LCS(Tail(x), y)
             r == LCS(x, Tail(y))
         IN  IF l >= r THEN l ELSE r

\* the score 100 * 2*LCS / (len1 + len2) as a fraction <<num, den>>
token_sort_ratio(s1, s2) ==
    LET a == JoinSpace(SortTokens(Split(s1)))
        b == JoinSpace(SortTokens(Split(s2)))
    IN  IF Len(a) + Len(b) = 0 THEN <<100, 1>>
        ELSE <<200 * LCS(a, b), Len(a) + Len(b)>>

ScoreGreater(p, q) == p[1] * q[2] > q[1] * p[2]

\* index of the best-scoring choice, the first one among equals; 0 when none
RECURSIVE BestFrom(_, _, _, _)
BestFrom(q, choices, i, best) ==
    IF i > Len(choices) THEN best
    ELSE IF best = 0
            \/ ScoreGreater(token_sort_ratio(q, choices[i]),
                            token_sort_ratio(q, choices[best]))
         THEN BestFrom(q, choices, i + 1, i)
         ELSE BestFrom(q, choices, i + 1, best)

extractOne(q, choices) == BestFrom(q, choices, 1, 0)

\* "for cand, ans in _ITEMS: if q == cand: return ans"
ExactMatch(q, items) ==
    IF \E i \in 1..Len(items) : items[i][1] = q
    THEN items[CHOOSE i \in 1..Len(items) :
                  /\ items[i][1] = q
                  /\ \A j \in 1..(i - 1) : items[j][1] # q][2]
    ELSE None

FuzzyMatch(q, threshold, items) ==
    LET queries == [i \in 1..Len(items) |-> items[i][1]]
        idx == extractOne(q, queries)
    IN  IF idx = 0 THEN None
        ELSE LET score == token_sort_ratio(q, queries[idx]) IN
             IF score[1] >= threshold * score[2] THEN items[idx][2] ELSE None

\* mutant: the exact-match loop is missing
maybe_answer_faq_fuzzy_only(query, threshold, items) ==
    IF query = None \/ query = <<>> THEN None
    ELSE LET q == Lower(Strip(query)) IN
         IF q = <<>> \/ items = <<>> THEN None
         ELSE FuzzyMatch(q, threshold, items)

maybe_answer_faq(query, threshold, items) ==
    IF query = None \/ query = <<>> THEN None
    ELSE LET q == Lower(Strip(query)) IN
         IF q = <<>> \/ items = <<>> THEN None
         ELSE IF ExactMatch(q, items) # None THEN ExactMatch(q, items)
         ELSE FuzzyMatch(q, threshold, items)

----------------------------------------------------------------------------
(* The vector index and its MMR search.  An index of n chunks holds chunks  *)
(* 1..n; the embedding provider is external, so similarities are given by   *)
(* fixed integer tables: QuerySim of a query profile and a chunk, ChunkSim  *)
(* of two chunks.                                                           *)

SimMod == 11

QuerySim(p, c) == (p * c * c + 3 * c + p) % SimMod

ChunkSim(c, d) == IF c = d THEN SimMod ELSE (c * d + c + d) % SimMod

\* the embedding of a query text, reduced to its similarity profile
Profile(text) == Len(text) + (IF text # <<>> /\ text[1] = "b" THEN 2 ELSE 0)

\* c is ranked before d for profile p: more similar, the lower id among equals
Before(p, c, d) ==
    \/ QuerySim(p, c) > QuerySim(p, d)
    \/ QuerySim(p, c) = QuerySim(p, d) /\ c < d

Rank(n, p, c) == Cardinality({d \in 1..n : Before(p, d, c)})

\* index.search(query, fetch_k): the fetch_k most similar chunks, best first
TopFetch(n, p, fetch_k) ==
    LET m == IF fetch_k < n THEN (IF fetch_k < 0 THEN 0 ELSE fetch_k) ELSE n IN
    [r \in 1..m |-> CHOOSE c \in 1..n : Rank(n, p, c) = r - 1]

Max(S) == CHOOSE x \in S : \A y \in S : y <= x

\* lambda_mult is LambdaNum / LambdaDen
LambdaDen == 20

MMRScore(p, lam, c, selected) ==
    lam * QuerySim(p, c)
      - (LambdaDen - lam) * Max({ChunkSim(c, selected[j]) : j \in 1..Len(selected)})

\* the candidate with the best MMR score, the first in pool order among equals
NextPick(p, lam, pool, selected) ==
    LET left == {i \in 1..Len(pool) : \A j \in 1..Len(selected) : selected[j] # pool[i]}
    IN  pool[CHOOSE i \in left :
            \A j \in left :
               \/ MMRScore(p, lam, pool[i], selected) > MMRScore(p, lam, pool[j], selected)
               \/ /\ MMRScore(p, lam, pool[i], selected) = MMRScore(p, lam, pool[j], selected)
                  /\ i <= j]

RECURSIVE MMRLoop(_, _, _, _, _)
MMRLoop(p, lam, pool, k, selected) ==
    IF Len(selected) >= k \/ Len(selected) >= Len(pool) THEN selected
    ELSE MMRLoop(p, lam, pool, k, Append(selected, NextPick(p, lam, pool, selected)))

\* maximal marginal relevance: start from the most similar candidate, then
\* add the best-scoring remaining one until k are chosen or the pool is used up
MMRSelect(p, lam, pool, k) ==
    IF k <= 0 \/ pool = <<>> THEN <<>>
    ELSE MMRLoop(p, lam, pool, k, <<pool[1]>>)

\* retriever.invoke(query) of an MMR retriever with search_kwargs cfg
MMRSearch(n, p, cfg) ==
    MMRSelect(p, cfg.lambda_mult, TopFetch(n, p, cfg.fetch_k), cfg.k)

----------------------------------------------------------------------------
(* scripts/retriever.py: get_retriever *)

FetchK == 35

\* mutant: the retriever asks the search for one result more than requested
RetrieverConfigOffByOne(k, lambda_mult) ==
    [k |-> k + 1, fetch_k |-> FetchK, lambda_mult |-> lambda_mult]

\* search_kwargs={"k": k, "fetch_k": 35, "lambda_mult": float(lambda_mult)}
RetrieverConfig(k, lambda_mult) ==
    [k |-> k, fetch_k |-> FetchK, lambda_mult |-> lambda_mult]

----------------------------------------------------------------------------
(* app.py: the answer flow, one script run per submitted question.          *)
(* Streamlit runs each browser session's script in its own thread of the    *)
(* one server process; _cached_vs (functools.lru_cache) and get_chain       *)
(* (st.cache_resource) are shared by all of them.                           *)

Sessions == {"s1", "s2"}

Missing == -1

\* the settings of the run: Top-K slider (3..12), MMR lambda slider (0.5)
TopKs == {3, 6}
AppLambda == 10
FaqThreshold == 90

\* data/curated/aliases.json and data/curated/faq.json as served by the app
AppAliasFile == FileJson(JObj(<< <<(<<"b">>), JArr(<<JStr(<<"a">>)>>)>> >>))

AppFaqFile ==
    FileJson(JObj(<< <<FaqsKey, JArr(<<
        JObj(<< <<(<<"q">>), JStr(<<"a">>)>>, <<(<<"a">>), JStr(<<"A">>)>> >>),
        JObj(<< <<(<<"q">>), JStr(<<"b", "b">>)>>, <<(<<"a">>), JStr(<<"A", "A">>)>> >>)
    >>)>> >>))

\* _ITEMS, built once at import of scripts.faq_router
AppItems == load_faq_items(AppFaqFile).val

AppQueries == {<<" ">>, <<"a">>, <<"b", "b">>}

IdleReq ==
    [pc |-> "idle", query |-> <<>>, top_k |-> 0, require_ctx |-> FALSE,
     q_pre |-> <<>>, faq_ans |-> None, chain |-> 0, vs |-> 0,
     docs |-> <<>>, question |-> <<>>, ctx_docs |-> <<>>,
     shown |-> "none", citation |-> "none", chunks |-> 0,
     error |-> "none", hint |-> FALSE,
     loadTries |-> 0, searches |-> 0, streamCalls |-> 0, invokeCalls |-> 0,
     streamFailed |-> FALSE, invokeFailed |-> FALSE,
     missing |-> FALSE, cold |-> FALSE, afterFailure |-> FALSE]

Terminal == {"NoQuery", "Answered", "NoRelevantContext", "InitFailed", "Failed", "Crashed"}

InFlight(r) == r.pc \notin Terminal \cup {"idle"}

\* mutant: the FAQ answer is shown but the script does not stop
SubmitNoStop(s, query, k, require) ==
    /\ req[s].pc = "idle"
    /\ LET q_pre == preprocess_query(query, AppAliasFile).val
           faq_ans == maybe_answer_faq(q_pre, FaqThreshold, AppItems)
           r == [IdleReq EXCEPT !.query = query, !.top_k = k, !.require_ctx = require,
                                !.q_pre = q_pre,
                                !.missing = (disk = Missing), !.cold = (vsCache = 0)]
       IN  req' = [req EXCEPT ![s] =
                IF Strip(q_pre) = <<>>
                THEN [r EXCEPT !.pc = "NoQuery", !.shown = "warning"]
                ELSE IF faq_ans # None /\ faq_ans # <<>>
                THEN [r EXCEPT !.pc = "get_chain", !.faq_ans = faq_ans,
                               !.shown = "faq", !.citation = "faq.json"]
                ELSE [r EXCEPT !.pc = "get_chain",
                               !.afterFailure =
                                   (\E t \in Sessions : req[t].pc = "InitFailed")]]
    /\ UNCHANGED <<vsCache, handles, chainCache, chainLock, disk, call>>

\* lines 144-157: normalise, reject an empty question, FAQ fast-path
Submit(s, query, k, require) ==
    /\ req[s].pc = "idle"
    /\ LET q_pre == preprocess_query(query, AppAliasFile).val
           faq_ans == maybe_answer_faq(q_pre, FaqThreshold, AppItems)
           r == [IdleReq EXCEPT !.query = query, !.top_k = k, !.require_ctx = require,
                                !.q_pre = q_pre,
                                !.missing = (disk = Missing), !.cold = (vsCache = 0)]
       IN  req' = [req EXCEPT ![s] =
                IF Strip(q_pre) = <<>>
                THEN [r EXCEPT !.pc = "NoQuery", !.shown = "warning"]
                ELSE IF faq_ans # None /\ faq_ans # <<>>
                THEN [r EXCEPT !.pc = "Answered", !.faq_ans = faq_ans,
                               !.shown = "faq", !.citation = "faq.json"]
                ELSE [r EXCEPT !.pc = "get_chain",
                               !.afterFailure =
                                   (\E t \in Sessions : req[t].pc = "InitFailed")]]
    /\ UNCHANGED <<vsCache, handles, chainCache, chainLock, disk, call>>

\* line 160, get_chain(model, temperature, top_k, lambda): st.cache_resource
\* returns the cached chain of these settings, or computes it under the
\* settings' own lock
GetChain(s) ==
    /\ req[s].pc = "get_chain"
    /\ LET key == req[s].top_k IN
       IF chainCache[key] # 0
       THEN /\ req' = [req EXCEPT ![s].pc = "retrieve", ![s].chain = chainCache[key]]
            /\ UNCHANGED chainLock
       ELSE /\ key \notin chainLock
            /\ chainLock' = chainLock \cup {key}
            /\ req' = [req EXCEPT ![s].pc = "vs_lookup"]
    /\ UNCHANGED <<vsCache, handles, chainCache, disk, call>>

\* mutant: the lookup ignores the cached handle and loads from disk again
VsLookupNoCache(s) ==
    /\ req[s].pc = "vs_lookup"
    /\ req' = [req EXCEPT ![s].pc = "vs_load"]
    /\ UNCHANGED <<chainCache, chainLock>>
    /\ UNCHANGED <<vsCache, handles, disk, call>>

\* line 96 -> get_retriever -> get_vectorstore -> _cached_vs(): the
\* lru_cache lookup; on a hit the chain is built around the cached handle
VsLookup(s) ==
    /\ req[s].pc = "vs_lookup"
    /\ LET key == req[s].top_k IN
       IF vsCache # 0
       THEN /\ req' = [req EXCEPT ![s].pc = "retrieve", ![s].chain = vsCache]
            /\ chainCache' = [chainCache EXCEPT ![key] = vsCache]
            /\ chainLock' = chainLock \ {key}
       ELSE /\ req' = [req EXCEPT ![s].pc = "vs_load"]
            /\ UNCHANGED <<chainCache, chainLock>>
    /\ UNCHANGED <<vsCache, handles, disk, call>>

\* mutant: a missing index directory loads as an empty store
VsLoadFailEmptyStore(s) ==
    /\ req[s].pc = "vs_load"
    /\ disk = Missing
    /\ LET h == Len(handles) + 1
           key == req[s].top_k
       IN  /\ handles' = Append(handles, 0)
           /\ vsCache' = IF vsCache = 0 THEN h ELSE vsCache
           /\ chainCache' = [chainCache EXCEPT ![key] = h]
           /\ chainLock' = chainLock \ {key}
           /\ req' = [req EXCEPT ![s].pc = "retrieve", ![s].chain = h,
                                 ![s].loadTries = @ + 1]
    /\ UNCHANGED <<disk, call>>

\* _cached_vs body, index directory absent: FileNotFoundError with the
\* rebuild hint; lines 161-164 show it (st.error, st.exception) and stop
VsLoadFail(s) ==
    /\ req[s].pc = "vs_load"
    /\ disk = Missing
    /\ req' = [req EXCEPT ![s].pc = "InitFailed", ![s].shown = "exception",
                          ![s].error = "IndexNotFound", ![s].hint = TRUE,
                          ![s].loadTries = @ + 1]
    /\ chainLock' = chainLock \ {req[s].top_k}
    /\ UNCHANGED <<vsCache, handles, chainCache, disk, call>>

\* _cached_vs body, index present: FAISS.load_local; lru_cache stores the
\* result unless another thread stored one meanwhile, and returns this
\* call's own result either way
VsLoadOk(s) ==
    /\ req[s].pc = "vs_load"
    /\ disk # Missing
    /\ LET h == Len(handles) + 1
           key == req[s].top_k
       IN  /\ handles' = Append(handles, disk)
           /\ vsCache' = IF vsCache = 0 THEN h ELSE vsCache
           /\ chainCache' = [chainCache EXCEPT ![key] = h]
           /\ chainLock' = chainLock \ {key}
           /\ req' = [req EXCEPT ![s].pc = "retrieve", ![s].chain = h,
                                 ![s].loadTries = @ + 1]
    /\ UNCHANGED <<disk, call>>

\* lines 167-169: get_retriever (the cache again) and retriever.invoke(q_pre)
Retrieve(s) ==
    /\ req[s].pc = "retrieve"
    /\ IF vsCache = 0 /\ disk = Missing
       THEN /\ req' = [req EXCEPT ![s].pc = "Crashed", ![s].shown = "exception",
                                  ![s].error = "IndexNotFound", ![s].hint = TRUE,
                                  ![s].loadTries = @ + 1]
            /\ UNCHANGED <<vsCache, handles>>
       ELSE LET fresh == vsCache = 0
                h == IF fresh THEN Len(handles) + 1 ELSE vsCache
                hs == IF fresh THEN Append(handles, disk) ELSE handles
                cfg == RetrieverConfig(req[s].top_k, AppLambda)
            IN  /\ handles' = hs
                /\ vsCache' = h
                /\ req' = [req EXCEPT
                       ![s].pc = "check_ctx", ![s].vs = h,
                       ![s].loadTries = IF fresh THEN @ + 1 ELSE @,
                       ![s].searches = @ + 1,
                       ![s].docs = MMRSearch(hs[h], Profile(req[s].q_pre), cfg)]
    /\ UNCHANGED <<chainCache, chainLock, disk, call>>

\* build_inputs of the chain (lines 107-110), run by chain.stream / chain.invoke
BuildInputs(r) ==
    LET qn == preprocess_query(r.query, AppAliasFile).val
        cfg == RetrieverConfig(r.top_k, AppLambda)
    IN  [question |-> qn,
         docs |-> IF qn # <<>> THEN MMRSearch(handles[r.chain], Profile(qn), cfg)
                  ELSE <<>>]

\* mutant: the "only answer if context found" setting is ignored
CheckCtxIgnored(s) ==
    /\ req[s].pc = "check_ctx"
    /\ req' = [req EXCEPT ![s].pc = "streaming", ![s].streamCalls = @ + 1,
                          ![s].question = BuildInputs(req[s]).question,
                          ![s].ctx_docs = BuildInputs(req[s]).docs]
    /\ UNCHANGED <<vsCache, handles, chainCache, chainLock, disk, call>>

\* lines 171-179: the require_ctx policy, else chain.stream(query) starts
CheckCtx(s) ==
    /\ req[s].pc = "check_ctx"
    /\ IF req[s].require_ctx /\ req[s].docs = <<>>
       THEN req' = [req EXCEPT ![s].pc = "NoRelevantContext", ![s].shown = "warning"]
       ELSE req' = [req EXCEPT ![s].pc = "streaming", ![s].streamCalls = @ + 1,
                               ![s].question = BuildInputs(req[s]).question,
                               ![s].ctx_docs = BuildInputs(req[s]).docs]
    /\ UNCHANGED <<vsCache, handles, chainCache, chainLock, disk, call>>

\* lines 179-182: one more chunk of the streamed answer is rendered
StreamChunk(s) ==
    /\ req[s].pc = "streaming"
    /\ req[s].chunks < MaxStreamChunks
    /\ req' = [req EXCEPT ![s].chunks = @ + 1, ![s].shown = "partial"]
    /\ UNCHANGED <<vsCache, handles, chainCache, chainLock, disk, call>>

\* the stream ends normally
StreamEnd(s) ==
    /\ req[s].pc = "streaming"
    /\ req' = [req EXCEPT ![s].pc = "Answered", ![s].shown = "streamed"]
    /\ UNCHANGED <<vsCache, handles, chainCache, chainLock, disk, call>>

\* lines 183-186: the stream raises; st.error, then chain.invoke(query)
StreamFail(s) ==
    /\ req[s].pc = "streaming"
    /\ req' = [req EXCEPT ![s].pc = "fallback", ![s].streamFailed = TRUE,
                          ![s].invokeCalls = @ + 1]
    /\ UNCHANGED <<vsCache, handles, chainCache, chainLock, disk, call>>

\* line 187: the single call answers
InvokeOk(s) ==
    /\ req[s].pc = "fallback"
    /\ req' = [req EXCEPT ![s].pc = "Answered", ![s].shown = "full"]
    /\ UNCHANGED <<vsCache, handles, chainCache, chainLock, disk, call>>

\* mutant: a failed single call is tried again
InvokeFailRetried(s) ==
    /\ req[s].pc = "fallback"
    /\ IF req[s].invokeCalls < 2
       THEN req' = [req EXCEPT ![s].invokeCalls = @ + 1]
       ELSE req' = [req EXCEPT ![s].pc = "Failed", ![s].shown = "exception",
                               ![s].error = "GenerationFailure",
                               ![s].invokeFailed = TRUE]
    /\ UNCHANGED <<vsCache, handles, chainCache, chainLock, disk, call>>

\* lines 188-189: the single call raises too; st.exception(e2)
InvokeFail(s) ==
    /\ req[s].pc = "fallback"
    /\ req' = [req EXCEPT ![s].pc = "Failed", ![s].shown = "exception",
                          ![s].error = "GenerationFailure",
                          ![s].invokeFailed = TRUE]
    /\ UNCHANGED <<vsCache, handles, chainCache, chainLock, disk, call>>

\* the script run is over; the session's next submit starts a new one
Rerun(s) ==
    /\ req[s].pc \in Terminal
    /\ req' = [req EXCEPT ![s] = IdleReq]
    /\ UNCHANGED <<vsCache, handles, chainCache, chainLock, disk, call>>

\* scripts/build_faiss.py: the index directory is (re)written
BuildIndex(n) ==
    /\ disk # n
    /\ disk' = n
    /\ req' = [s \in Sessions |->
                 IF InFlight(req[s]) THEN [req[s] EXCEPT !.missing = FALSE] ELSE req[s]]
    /\ UNCHANGED <<vsCache, handles, chainCache, chainLock, call>>

\* the index directory is deleted
RemoveIndex ==
    /\ disk # Missing
    /\ disk' = Missing
    /\ UNCHANGED <<req, vsCache, handles, chainCache, chainLock, call>>

NoCall == [op |-> "none"]

Init ==
    /\ req = [s \in Sessions |-> IdleReq]
    /\ vsCache = 0
    /\ handles = <<>>
    /\ chainCache = [k \in TopKs |-> 0]
    /\ chainLock = {}
    /\ disk \in {Missing, 0, MaxIndexChunks}
    /\ call = NoCall

Next ==
    \/ \E s \in Sessions, q \in AppQueries, k \in TopKs, b \in BOOLEAN : Submit(s, q, k, b)
    \/ \E s \in Sessions : GetChain(s)
    \/ \E s \in Sessions : VsLookup(s)
    \/ \E s \in Sessions : VsLoadFail(s)
    \/ \E s \in Sessions : VsLoadOk(s)
    \/ \E s \in Sessions : Retrieve(s)
    \/ \E s \in Sessions : CheckCtx(s)
    \/ \E s \in Sessions : StreamChunk(s)
    \/ \E s \in Sessions : StreamEnd(s)
    \/ \E s \in Sessions : StreamFail(s)
    \/ \E s \in Sessions : InvokeOk(s)
    \/ \E s \in Sessions : InvokeFail(s)
    \/ \E s \in Sessions : Rerun(s)
    \/ BuildIndex(MaxIndexChunks)
    \/ RemoveIndex

Spec == Init /\ [][Next]_vars

----------------------------------------------------------------------------
(* Claims about the answer flow and the shared index handle (Spec) *)

GenCalls(r) == r.streamCalls + r.invokeCalls

\* C1: chain.stream is called at most once per request and chain.invoke
\* exactly once after a streaming failure and never otherwise, so generation
\* is called at most twice; a failed fallback ends the request in Failed with
\* the exception shown, and Failed is reached in no other way.
C1_OneFallbackThenFail ==
    \A s \in Sessions :
        LET r == req[s] IN
        /\ r.streamCalls <= 1
        /\ r.invokeCalls = (IF r.streamFailed THEN 1 ELSE 0)
        /\ r.streamFailed => r.streamCalls = 1
        /\ GenCalls(r) <= 2
        /\ r.pc = "fallback" => r.streamFailed /\ ~r.invokeFailed
        /\ r.invokeFailed =>
              r.pc = "Failed" /\ r.error = "GenerationFailure" /\ r.shown = "exception"
        /\ r.pc = "Failed" => r.invokeFailed

\* C1 witness: one request failed after both calls while another was
\* answered by the fallback, after part of the stream had been rendered
C1_Witness ==
    \E s, t \in Sessions :
        /\ req[s].pc = "Failed" /\ GenCalls(req[s]) = 2
        /\ req[t].pc = "Answered" /\ req[t].shown = "full" /\ req[t].chunks > 0

\* C2: a request whose FAQ check hits ends Answered with the FAQ answer and
\* the faq.json marker; it neither loads nor searches the index, gets no
\* chain, and calls no generation.
C2_FaqHitSkipsRetrieval ==
    \A s \in Sessions :
        LET r == req[s] IN
        /\ r.faq_ans # None =>
              /\ r.pc = "Answered"
              /\ r.shown = "faq" /\ r.citation = "faq.json"
              /\ r.faq_ans = maybe_answer_faq(r.q_pre, FaqThreshold, AppItems)
              /\ r.loadTries = 0 /\ r.searches = 0 /\ r.chain = 0 /\ r.vs = 0
              /\ r.docs = <<>> /\ GenCalls(r) = 0
        /\ (r.pc # "idle" /\ Strip(r.q_pre) # <<>>
              /\ maybe_answer_faq(r.q_pre, FaqThreshold, AppItems) # None)
              => r.faq_ans # None

\* C2 witness: a FAQ hit answered while the index is on disk and cached
C2_Witness ==
    \E s \in Sessions :
        /\ req[s].pc = "Answered" /\ req[s].shown = "faq"
        /\ req[s].faq_ans = <<"A", "A">>
        /\ vsCache # 0 /\ disk # Missing

\* the request has run line 168 and decided the require_ctx policy
PastPolicy(r) == r.searches = 1 /\ r.pc # "check_ctx"

\* C3: with "require context" on and an empty retrieval the request ends in
\* NoRelevantContext without any generation call; otherwise (policy off, or
\* chunks found) the request goes on to chain.stream.
C3_RequireContextPolicy ==
    \A s \in Sessions :
        LET r == req[s] IN
        /\ (PastPolicy(r) /\ r.require_ctx /\ r.docs = <<>>) =>
              r.pc = "NoRelevantContext" /\ GenCalls(r) = 0 /\ r.shown = "warning"
        /\ (PastPolicy(r) /\ ~(r.require_ctx /\ r.docs = <<>>)) =>
              r.pc # "NoRelevantContext" /\ r.streamCalls = 1
        /\ r.pc = "NoRelevantContext" => r.require_ctx /\ r.docs = <<>>

\* C3 witness: the same empty retrieval stops one request (policy on) and is
\* streamed by another (policy off)
C3_Witness ==
    \E s, t \in Sessions :
        /\ req[s].pc = "NoRelevantContext" /\ req[s].searches = 1
        /\ req[t].pc = "streaming" /\ ~req[t].require_ctx /\ req[t].docs = <<>>

\* the request got past the empty-question check and the FAQ check missed
FaqMissed(r) == r.pc \notin {"idle", "NoQuery"} /\ r.faq_ans = None

\* C4 (as claimed): a request whose FAQ check misses while the index is
\* missing on disk ends with the IndexNotFound error and its rebuild hint.
C4_MissingIndexFails ==
    \A s \in Sessions :
        LET r == req[s] IN
        (FaqMissed(r) /\ r.missing /\ r.pc \in Terminal) =>
            r.pc = "InitFailed" /\ r.error = "IndexNotFound" /\ r.hint

\* C4 (amended): if moreover no handle was cached when the request was
\* submitted, the request can only end InitFailed, with IndexNotFound and the
\* hint shown, and at no point holds a retrieval result, a chain, rendered
\* answer text or a generation call.
C4_MissingIndexColdCacheFails ==
    \A s \in Sessions :
        LET r == req[s] IN
        (FaqMissed(r) /\ r.missing /\ r.cold) =>
            /\ r.pc \in {"get_chain", "vs_lookup", "vs_load", "InitFailed"}
            /\ r.pc = "InitFailed" <=> r.error = "IndexNotFound"
            /\ r.pc = "InitFailed" => r.hint /\ r.shown = "exception" /\ r.loadTries = 1
            /\ r.pc # "InitFailed" => r.shown = "none"
            /\ r.docs = <<>> /\ r.searches = 0 /\ r.chain = 0 /\ r.vs = 0
            /\ r.chunks = 0 /\ GenCalls(r) = 0

\* C4 witness: two requests on a cold process with no index both ended
\* InitFailed
C4_Witness ==
    \A s \in Sessions :
        /\ req[s].pc = "InitFailed" /\ req[s].missing /\ req[s].cold
        /\ req[s].error = "IndexNotFound" /\ req[s].hint

\* C5 (as claimed): the index is loaded from disk at most once, and every
\* chain and retriever is built around the one cached handle.
C5_LoadedOnceShared ==
    /\ Len(handles) <= 1
    /\ \A k \in TopKs : chainCache[k] # 0 => chainCache[k] = vsCache
    /\ \A s \in Sessions :
          /\ req[s].chain # 0 => req[s].chain = vsCache
          /\ req[s].vs # 0 => req[s].vs = vsCache

----------------------------------------------------------------------------
(* Function-level specifications: one call of a function of the scripts,    *)
(* its inputs drawn from bounded sets, recorded in the variable call.       *)

appVars == <<req, vsCache, handles, chainCache, chainLock, disk>>

AppAtRest ==
    /\ req = [s \in Sessions |-> IdleReq]
    /\ vsCache = 0
    /\ handles = <<>>
    /\ chainCache = [k \in TopKs |-> 0]
    /\ chainLock = {}
    /\ disk = Missing

Queries == TextsOver(Chars, 0, MaxQueryLen)

\* --- get_retriever and the MMR search it configures ---

IndexSizes == {0, 3, FetchK, FetchK + 2}
Profiles == 1..3
Ks == {0, 1, 3, 12, FetchK + 1}
Lambdas == {0, 10, LambdaDen}

MMRInit ==
    /\ AppAtRest
    /\ call \in [op : {"mmr"}, stage : {0}, n : IndexSizes, p : Profiles,
                 k : Ks, lam : Lambdas, cfg : {<<>>}, res : {<<>>}]

\* r = get_retriever(k, lambda_mult)
MMRGetRetriever ==
    /\ call.op = "mmr" /\ call.stage = 0
    /\ call' = [call EXCEPT !.stage = 1, !.cfg = RetrieverConfig(call.k, call.lam)]
    /\ UNCHANGED appVars

\* r.invoke(query)
MMRInvoke ==
    /\ call.op = "mmr" /\ call.stage = 1
    /\ call' = [call EXCEPT !.stage = 2, !.res = MMRSearch(call.n, call.p, call.cfg)]
    /\ UNCHANGED appVars

MMRNext == MMRGetRetriever \/ MMRInvoke

SpecMMR == MMRInit /\ [][MMRNext]_vars

\* --- preprocess_query over alias tables ---

MaxAliasEntries == 2

AliasCanons == TextsOver({"a", "b"}, 1, MaxAliasLen)
AliasNames == {<<>>, <<"a">>, <<"A">>, <<"b">>}
AliasEntries == {<<c, JArr(<<JStr(a)>>)>> : c \in AliasCanons, a \in AliasNames}
AliasTables == UNION {[1..n -> AliasEntries] : n \in 0..MaxAliasEntries}

AliasInit ==
    /\ AppAtRest
    /\ call \in [op : {"alias"}, stage : {0}, file : {FileJson(JObj(t)) : t \in AliasTables},
                 x : {<<>>}, r1 : {Ok(<<>>)}, r2 : {Ok(<<>>)}]

\* y = preprocess_query(x)
AliasNormalize(x) ==
    /\ call.op = "alias" /\ call.stage = 0
    /\ call' = [call EXCEPT !.stage = 1, !.x = x, !.r1 = preprocess_query(x, call.file)]
    /\ UNCHANGED appVars

\* preprocess_query(y)
AliasNormalizeAgain ==
    /\ call.op = "alias" /\ call.stage = 1
    /\ call.r1.ok
    /\ call' = [call EXCEPT !.stage = 2, !.r2 = preprocess_query(call.r1.val, call.file)]
    /\ UNCHANGED appVars

AliasNext == (\E x \in Queries : AliasNormalize(x)) \/ AliasNormalizeAgain

SpecAlias == AliasInit /\ [][AliasNext]_vars

\* --- the FAQ table at import, then maybe_answer_faq ---

MaxFaqRows == 2

KeyQ == <<"q">>
KeyA == <<"a">>
KeyAliases == <<"a", "l", "i", "a", "s", "e", "s">>

FaqRowOf(q, a, al) == JObj(<< <<KeyQ, JStr(q)>>, <<KeyA, JStr(a)>>, <<KeyAliases, al>> >>)

FaqRowSet ==
    {FaqRowOf(q, a, al) :
        q \in {<<"a">>, <<"A", " ">>},
        a \in {<<"a">>, <<"b", " ">>, <<" ">>},
        al \in {JNull, JArr(<<JStr(<<"b", " ", "a">>)>>)}}

FaqTables == UNION {[1..n -> FaqRowSet] : n \in 1..MaxFaqRows}

Thresholds == {0, FaqThreshold, 101}

\* queries: empty and blank, stored variants in other letter case or with
\* surrounding blanks, a reordering of a stored variant, and near misses
FaqQueries ==
    {<<>>, <<" ">>, <<"a">>, <<"A">>, <<" ", "a">>, <<"b">>, <<"a", "b">>,
     <<"b", " ", "a">>, <<"b", " ", "A">>, <<"a", " ", "b">>}

NotRun == [ok |-> FALSE, val |-> <<>>, err |-> "notrun"]

FaqInit ==
    /\ AppAtRest
    /\ call \in [op : {"faq"}, stage : {0},
                 file : {FileJson(JObj(<< <<FaqsKey, JArr(rows)>> >>)) : rows \in FaqTables},
                 items : {NotRun}, query : {<<>>}, threshold : {0}, ans : {None}]

\* import scripts.faq_router: _ITEMS = _load_faq_items()
FaqImport ==
    /\ call.op = "faq" /\ call.stage = 0
    /\ call' = [call EXCEPT !.stage = 1, !.items = load_faq_items(call.file)]
    /\ UNCHANGED appVars

\* maybe_answer_faq(query, threshold)
FaqMatch(query, threshold) ==
    /\ call.op = "faq" /\ call.stage = 1
    /\ call.items.ok
    /\ call' = [call EXCEPT !.stage = 2, !.query = query, !.threshold = threshold,
                            !.ans = maybe_answer_faq(query, threshold, call.items.val)]
    /\ UNCHANGED appVars

FaqNext == FaqImport \/ (\E q \in FaqQueries, t \in Thresholds : FaqMatch(q, t))

SpecFaq == FaqInit /\ [][FaqNext]_vars

\* --- the alias file and the FAQ file in any condition ---

GoodAliasFile == FileJson(JObj(<< <<(<<"b">>), JArr(<<JStr(<<"a">>)>>)>> >>))

AliasFileStates ==
    {FileMissing, FileMalformed, GoodAliasFile,
     FileJson(JNull), FileJson(JNum(1)), FileJson(JStr(<<"a">>)),
     FileJson(JArr(<<>>)), FileJson(JArr(<<JStr(<<"a">>)>>)),
     FileJson(JObj(<< <<(<<"b">>), JNull>> >>)),
     FileJson(JObj(<< <<(<<"b">>), JNum(1)>> >>)),
     FileJson(JObj(<< <<(<<"b">>), JStr(<<"a">>)>> >>)),
     FileJson(JObj(<< <<(<<"b">>), JArr(<<JNull>>)>> >>)),
     FileJson(JObj(<< <<(<<"b">>), JArr(<<JNum(1)>>)>> >>))}

GoodFaqFile == FileJson(JArr(<<FaqRowOf(<<"a">>, <<"b">>, JArr(<<JStr(<<"b">>)>>))>>))

FaqFileStates ==
    {FileMissing, FileMalformed, GoodFaqFile,
     FileJson(JNull), FileJson(JNum(1)), FileJson(JStr(<<"a">>)),
     FileJson(JArr(<<JNum(1)>>)), FileJson(JArr(<<JStr(<<"a">>)>>)),
     FileJson(JObj(<< <<FaqsKey, JNum(1)>> >>)),
     FileJson(JObj(<< <<KeyQ, JStr(<<"a">>)>> >>)),
     FileJson(JArr(<<JObj(<< <<KeyQ, JNum(1)>>, <<KeyA, JStr(<<"b">>)>> >>)>>)),
     FileJson(JArr(<<FaqRowOf(<<"a">>, <<"b">>, JNum(1))>>)),
     FileJson(JArr(<<FaqRowOf(<<"a">>, <<"b">>, JArr(<<JNum(1)>>))>>))}

FilesInit ==
    /\ AppAtRest
    /\ call \in [op : {"files"}, afile : AliasFileStates, ffile : FaqFileStates,
                 x : {<<>>}, pre : {NotRun}, items : {NotRun}, ans : {None}]

\* preprocess_query(x), which reads the alias file
FilesPreprocess(x) ==
    /\ call.op = "files" /\ call.pre = NotRun
    /\ call' = [call EXCEPT !.x = x, !.pre = preprocess_query(x, call.afile)]
    /\ UNCHANGED appVars

\* import scripts.faq_router, which reads the FAQ file
FilesImportFaq ==
    /\ call.op = "files" /\ call.items = NotRun
    /\ call' = [call EXCEPT !.items = load_faq_items(call.ffile)]
    /\ UNCHANGED appVars

\* maybe_answer_faq on the normalised query, as app.py calls it
FilesMatch ==
    /\ call.op = "files" /\ call.pre.ok /\ call.items.ok /\ call.ans = None
    /\ call' = [call EXCEPT !.ans = maybe_answer_faq(call.pre.val, FaqThreshold,
                                                     call.items.val)]
    /\ UNCHANGED appVars

FilesNext == (\E x \in Queries : FilesPreprocess(x)) \/ FilesImportFaq \/ FilesMatch

SpecFiles == FilesInit /\ [][FilesNext]_vars

----------------------------------------------------------------------------
(* Claims about get_retriever and the MMR search (SpecMMR) *)

\* the fetch_k candidate pool: the fetch_k chunks most similar to the query
PoolSet(n, p) == {c \in 1..n : Rank(n, p, c) < FetchK}

\* C6: the MMR search configured by get_retriever returns at most k chunks,
\* without repetition, and every returned chunk is one of the fetch_k chunks
\* most similar to the query.
C6_AtMostKFromPool ==
    (call.op = "mmr" /\ call.stage = 2) =>
        /\ Len(call.res) <= call.k
        /\ \A i \in 1..Len(call.res) : call.res[i] \in PoolSet(call.n, call.p)
        /\ \A i, j \in 1..Len(call.res) : call.res[i] = call.res[j] => i = j

\* C6 witness: an index larger than the pool, k results returned, and the
\* diversified order differs from the plain similarity order
C6_Witness ==
    /\ call.op = "mmr" /\ call.stage = 2
    /\ call.n > FetchK /\ call.k > 1
    /\ Len(call.res) = call.k
    /\ PoolSet(call.n, call.p) # 1..call.n
    /\ call.res # SubSeq(TopFetch(call.n, call.p, FetchK), 1, call.k)

\* C7 (as claimed): the candidate pool size used by the search is at least k.
C7_FetchKAtLeastK ==
    (call.op = "mmr" /\ call.stage >= 1) => call.cfg.fetch_k >= call.k

----------------------------------------------------------------------------
(* Claims about preprocess_query (SpecAlias) *)

\* C8 (as claimed): normalising a normalised query changes nothing.
C8_Idempotent ==
    (call.op = "alias" /\ call.stage = 2) => call.r2 = call.r1

----------------------------------------------------------------------------
(* Claims about the FAQ matcher (SpecFaq) *)

\* the rows of the FAQ file, and what one row stores
FileRows(file) == Get(file.value, FaqsKey).items

RowAnswer(row) == Strip(Get(row, KeyA).s)

RowVariants(row) ==
    LET al == Get(row, KeyAliases)
        raw == {Get(row, KeyQ).s} \cup {al.items[i].s : i \in 1..Len(al.items)}
    IN  {Lower(Strip(v)) : v \in raw} \ {<<>>}

Stores(row, v) == RowAnswer(row) # <<>> /\ v \in RowVariants(row)

\* C9 (as claimed): a query equal, up to letter case and surrounding blanks,
\* to a stored variant of an entry with a non-empty answer is answered with
\* that entry's answer, at every threshold.
C9_VariantGivesEntryAnswer ==
    (call.op = "faq" /\ call.stage = 2) =>
        \A i \in 1..Len(FileRows(call.file)) :
            Stores(FileRows(call.file)[i], Lower(Strip(call.query)))
                => call.ans = RowAnswer(FileRows(call.file)[i])

\* C9 (amended): such a query is answered, at every threshold, with the
\* answer of the first entry in table order that stores the variant.
C9_VariantGivesFirstEntryAnswer ==
    (call.op = "faq" /\ call.stage = 2) =>
        \A i \in 1..Len(FileRows(call.file)) :
            (/\ Stores(FileRows(call.file)[i], Lower(Strip(call.query)))
             /\ \A j \in 1..(i - 1) :
                   ~Stores(FileRows(call.file)[j], Lower(Strip(call.query))))
                => call.ans = RowAnswer(FileRows(call.file)[i])

\* C9 witness: above every fuzzy score (threshold 101), a query differing in
\* letter case from a variant stored only by the second entry gets its answer
C9_Witness ==
    /\ call.op = "faq" /\ call.stage = 2 /\ call.threshold = 101
    /\ Len(FileRows(call.file)) = 2
    /\ call.query # Lower(Strip(call.query))
    /\ ~Stores(FileRows(call.file)[1], Lower(Strip(call.query)))
    /\ Stores(FileRows(call.file)[2], Lower(Strip(call.query)))
    /\ call.ans = RowAnswer(FileRows(call.file)[2])

----------------------------------------------------------------------------
(* Claims about the alias file and the FAQ file (SpecFiles) *)

\* C10 (as claimed): whatever the condition of the alias file and of the FAQ
\* file, preprocess_query and the loading of the FAQ table do not fail, and a
\* file that is missing, malformed or of an unexpected shape acts as an empty
\* table.
C10_FilesRecoveredLocally ==
    (call.op = "files") =>
        /\ call.pre # NotRun =>
              /\ call.pre.ok
              /\ call.afile # GoodAliasFile => call.pre.val = Lower(Strip(call.x))
        /\ call.items # NotRun =>
              /\ call.items.ok
              /\ call.ffile # GoodFaqFile => call.items.val = <<>>

----------------------------------------------------------------------------
(* scripts/make_chunks.py: chunk_text, one window of the loop per step *)

MaxChunkText == 4
MaxChunkSize == 3
MaxWindows == 5

\* Python: text[i:j] for 0 <= i <= j <= len(text)
Slice(text, i, j) == SubSeq(text, i + 1, j)

Min(a, b) == IF a <= b THEN a ELSE b

\* lines 21-24: the call with out = [], i = 0
ChunkInit ==
    /\ AppAtRest
    /\ call \in [op : {"chunk"}, stage : {"loop"}, text : TextsOver({"a", " "}, 0, MaxChunkText),
                 size : 1..MaxChunkSize, overlap : -1..MaxChunkSize,
                 i : {0}, out : {<<>>}, res : {NotRun}]

\* lines 25-30: one pass of the while loop; the window [i, j) is recorded
\* beside the chunk's text; on the window that reaches the end of the text
\* the loop breaks and out is returned
ChunkWindow ==
    /\ call.op = "chunk" /\ call.stage = "loop"
    /\ call.i < Len(call.text)
    /\ Len(call.out) < MaxWindows
    /\ LET n == Len(call.text)
           j == Min(n, call.i + call.size)
           piece == Slice(call.text, call.i, j)
           out == Append(call.out, [text |-> Strip(piece), start |-> call.i, end |-> j])
       IN  IF j = n
           THEN call' = [call EXCEPT !.stage = "returned", !.out = out, !.res = Ok(out)]
           ELSE call' = [call EXCEPT !.out = out,
                                     !.i = Max({call.i + call.size - call.overlap, 0})]
    /\ UNCHANGED appVars

\* lines 25, 31: the loop condition fails; out is returned
ChunkReturn ==
    /\ call.op = "chunk" /\ call.stage = "loop"
    /\ call.i >= Len(call.text)
    /\ call' = [call EXCEPT !.stage = "returned", !.res = Ok(call.out)]
    /\ UNCHANGED appVars

SpecChunk == ChunkInit /\ [][ChunkWindow \/ ChunkReturn]_vars

----------------------------------------------------------------------------
(* Claims about chunk_text (SpecChunk) *)

\* C11 (as claimed): with 0 <= overlap < size, every chunk but the last has
\* a text of exactly size characters, and the windows of consecutive chunks
\* start size - overlap apart, so that they share exactly overlap characters.
C11_FullChunksOverlapping ==
    (/\ call.op = "chunk" /\ call.stage = "returned"
     /\ 0 <= call.overlap /\ call.overlap < call.size) =>
        \A w \in 1..(Len(call.out) - 1) :
            /\ Len(call.out[w].text) = call.size
            /\ call.out[w + 1].start = call.out[w].start + call.size - call.overlap
            /\ call.out[w].end - call.out[w + 1].start = call.overlap

\* C12 (as claimed): a call with overlap >= size fails with InvalidConfig,
\* and in every call the window start grows by at least 1 from one window to
\* the next, so that a text of n characters gives at most n windows.
C12_InvalidConfigOrProgress ==
    (call.op = "chunk") =>
        /\ (call.overlap >= call.size /\ call.res # NotRun) =>
               call.res = Raise("InvalidConfig")
        /\ \A w \in 1..(Len(call.out) - 1) : call.out[w + 1].start > call.out[w].start
        /\ Len(call.out) <= Max({Len(call.text), 1})

----------------------------------------------------------------------------
(* The answer chains: get_chain of app.py, scripts/rag_chain_ollama.py,     *)
(* scripts/rag_chain_demo.py and scripts/stream_answer.py.                  *)

KeySource == <<"s", "o", "u", "r", "c", "e">>
KeyQuestion == <<"q", "u", "e", "s", "t", "i", "o", "n">>

\* "[no context retrieved]"
Placeholder ==
    <<"[", "n", "o", " ", "c", "o", "n", "t", "e", "x", "t", " ",
      "r", "e", "t", "r", "i", "e", "v", "e", "d", "]">>

Unknown == <<"u", "n", "k", "n", "o", "w", "n">>

\* the Document stored for chunk c of the index
DocWithSource == [page_content |-> <<"a">>,
                  metadata |-> JObj(<< <<KeySource, JStr(<<"b">>)>> >>)]
DocNoSource == [page_content |-> <<"b", "b">>, metadata |-> JObj(<<>>)]
DocOf(c) == IF c % 2 = 1 THEN DocWithSource ELSE DocNoSource

\* d.metadata.get("source", default)
MetaSource(d, default) ==
    LET v == Get(d.metadata, KeySource) IN IF v = JNull THEN default ELSE v.s

\* f"{d.page_content}\n[{src}]"
FormatPart(d, default) ==
    d.page_content \o <<"\n", "[">> \o MetaSource(d, default) \o <<"]">>

\* Python: sep.join(parts)
RECURSIVE Join(_, _)
Join(parts, sep) ==
    IF parts = <<>> THEN <<>>
    ELSE IF Len(parts) = 1 THEN Head(parts)
    ELSE Head(parts) \o sep \o Join(Tail(parts), sep)

\* app.py lines 98-105
format_docs(docs) ==
    IF docs = <<>> THEN Placeholder
    ELSE Join([i \in 1..Len(docs) |-> FormatPart(docs[i], Unknown)], <<"\n", "\n">>)

\* rag_chain_ollama.py lines 40-45, rag_chain_demo.py lines 28-33
format_docs_cli(docs) ==
    Join([i \in 1..Len(docs) |-> FormatPart(docs[i], Unknown)], <<"\n">>)

\* stream_answer.py lines 17-19
fmt(docs) ==
    Join([i \in 1..Len(docs) |-> FormatPart(docs[i], <<>>)], <<"\n">>)

Formatter(chain, docs) ==
    CASE chain = "app" -> format_docs(docs)
      [] chain = "stream_answer" -> fmt(docs)
      [] OTHER -> format_docs_cli(docs)

\* get_retriever(k=6) of the command-line chains
CliK == 6

\* preprocess_query applied to a value v of a chain: "(q or '').strip()"
\* of a non-empty value that is no string has no strip
preprocess_value(v) ==
    IF v.t = "str" THEN preprocess_query(v.s, AppAliasFile)
    ELSE IF ~Truthy(v) THEN Ok(<<>>)
    ELSE Raise("AttributeError")

\* retriever.invoke(v) / retriever.get_relevant_documents(v) on an index of
\* n chunks: the texts searched for, and the documents found; a value that
\* is no string cannot be embedded
Search(v, n, k) ==
    IF v.t = "str"
    THEN [searched |-> <<v.s>>,
          out |-> LET ids == MMRSearch(n, Profile(v.s), RetrieverConfig(k, AppLambda))
                  IN  Ok([i \in 1..Len(ids) |-> DocOf(ids[i])])]
    ELSE [searched |-> <<>>, out |-> Raise("AttributeError")]


\* app.py lines 107-123: build_inputs, then question and format_docs(docs)
AppChain(q, n, k) ==
    LET qn == preprocess_query(q, AppAliasFile)
        found == IF qn.val # <<>> THEN Search(JStr(qn.val), n, k)
                 ELSE [searched |-> <<>>, out |-> Ok(<<>>)]
    IN  [searched |-> found.searched,
         out |-> Ok([question |-> JStr(qn.val), context |-> format_docs(found.out.val)])]

\* stream_answer.py lines 21-25: both lambdas receive the chain's input q
StreamAnswerChain(q, n) ==
    LET qn == preprocess_value(JStr(q))
        found == Search(JStr(q), n, CliK)
    IN  [searched |-> found.searched,
         out |-> Ok([question |-> JStr(qn.val), context |-> fmt(found.out.val)])]

\* rag_chain_ollama.py lines 48-57, rag_chain_demo.py lines 35-44: the first
\* step maps the input to {"question": q}, and both lambdas of the second
\* step receive that mapping; the third step passes the second's mapping on
\* as the question
CliChain(q, n) ==
    LET x == JObj(<< <<KeyQuestion, JStr(q)>> >>)
        qn == preprocess_value(x)
        found == Search(x, n, CliK)
    IN  [searched |-> found.searched,
         out |-> IF ~qn.ok THEN qn
                 ELSE IF ~found.out.ok THEN found.out
                 ELSE Ok([question |-> JObj(<< <<KeyQuestion, JStr(qn.val)>> >>),
                          context |-> format_docs_cli(found.out.val)])]

ChainInit ==
    /\ AppAtRest
    /\ call \in [op : {"chain"}, chain : {"app", "rag_chain_ollama", "rag_chain_demo", "stream_answer"}, q : Queries,
                 n : {0, MaxIndexChunks}, k : {CliK},
                 docs : UNION {[1..m -> {DocWithSource, DocNoSource}] :
                                  m \in 0..MaxIndexChunks},
                 context : {NotRun}, run : {[searched |-> <<>>, out |-> NotRun]}]

\* the chain's formatter applied to a list of documents
FormatCall ==
    /\ call.op = "chain" /\ call.context = NotRun
    /\ call' = [call EXCEPT !.context = Ok(Formatter(call.chain, call.docs))]
    /\ UNCHANGED appVars

\* chain.stream(query) / chain.invoke(query) of the app, up to the prompt
AppChainInvoke(k) ==
    /\ call.op = "chain" /\ call.chain = "app" /\ call.run.out = NotRun
    /\ call' = [call EXCEPT !.k = k, !.run = AppChain(call.q, call.n, k)]
    /\ UNCHANGED appVars

\* chain.invoke(q) of rag_chain_ollama.py and rag_chain_demo.py
CliChainInvoke ==
    /\ call.op = "chain" /\ call.chain \in {"rag_chain_ollama", "rag_chain_demo"}
    /\ call.run.out = NotRun
    /\ call' = [call EXCEPT !.run = CliChain(call.q, call.n)]
    /\ UNCHANGED appVars

\* chain.stream(q) of stream_answer.py, up to the prompt
StreamAnswerInvoke ==
    /\ call.op = "chain" /\ call.chain = "stream_answer" /\ call.run.out = NotRun
    /\ call' = [call EXCEPT !.run = StreamAnswerChain(call.q, call.n)]
    /\ UNCHANGED appVars

ChainNext ==
    \/ FormatCall
    \/ \E k \in TopKs : AppChainInvoke(k)
    \/ CliChainInvoke
    \/ StreamAnswerInvoke

SpecChains == ChainInit /\ [][ChainNext]_vars

----------------------------------------------------------------------------
(* Claims about the answer chains (SpecChains) *)

\* C13 (as claimed): in every chain the formatter turns an empty list of
\* documents into the placeholder "[no context retrieved]", and the context
\* that reaches the prompt is never the empty string.
C13_PlaceholderInEveryChain ==
    (call.op = "chain") =>
        /\ (call.context # NotRun /\ call.docs = <<>>) => call.context = Ok(Placeholder)
        /\ call.run.out.ok => call.run.out.val.context # <<>>

\* C16 (as claimed): in every chain each search of the index is made with
\* preprocess_query of the user's query, and the question in the prompt is
\* that same normalised query.
C16_SearchUsesNormalizedQuery ==
    (call.op = "chain" /\ call.run.out # NotRun) =>
        LET qn == preprocess_query(call.q, AppAliasFile).val IN
        /\ \A i \in 1..Len(call.run.searched) : call.run.searched[i] = qn
        /\ call.run.out.ok => call.run.out.val.question = JStr(qn)

----------------------------------------------------------------------------
(* scripts/retriever.py: filtered_similar_docs *)

MaxCands == 3

KeyType == <<"t", "y", "p", "e">>

\* metadata of a candidate: None, or a mapping with or without the keys
Metadatas ==
    {JNull,
     JObj(<<>>),
     JObj(<< <<KeySource, JStr(<<"a">>)>> >>),
     JObj(<< <<KeySource, JStr(<<"b">>)>>, <<KeyType, JStr(<<"a">>)>> >>)}

\* the documents vs.similarity_search(q_norm, k=25) returned, in its order;
\* pos is the document's place in that order
CandidateLists ==
    UNION {{[i \in 1..m |-> [pos |-> i, metadata |-> f[i]]] : f \in [1..m -> Metadatas]} :
              m \in 0..MaxCands}

\* where: None or {} (both empty here), or key -> predicate in insertion
\* order, a predicate being given by the set of values it accepts
Wheres ==
    {<<>>,
     << <<KeySource, {JStr(<<"a">>)}>> >>,
     << <<KeySource, {JNull, JStr(<<"b">>)}>> >>,
     << <<KeySource, {JNull, JStr(<<"b">>)}>>, <<KeyType, {JNull, JStr(<<"b">>)}>> >>,
     << <<KeyType, {}>> >>}

\* (d.metadata or {}).get(key)
MetaGet(d, key) == IF Truthy(d.metadata) THEN Get(d.metadata, key) ELSE JNull

\* lines 87-90: ok = ok and bool(pred(val)), over where.items() from entry i
RECURSIVE AllPreds(_, _, _, _)
AllPreds(d, where, i, ok) ==
    IF i > Len(where) THEN ok
    ELSE AllPreds(d, where, i + 1, ok /\ (MetaGet(d, where[i][1]) \in where[i][2]))

\* lines 85-93: the loop over docs building kept, from candidate i
RECURSIVE Kept(_, _, _, _)
Kept(docs, where, i, kept) ==
    IF i > Len(docs) THEN kept
    ELSE Kept(docs, where, i + 1,
              IF AllPreds(docs[i], where, 1, TRUE) THEN Append(kept, docs[i]) ELSE kept)

\* Python: docs[:k]
Prefix(docs, k) ==
    IF k >= 0 THEN SubSeq(docs, 1, Min(k, Len(docs)))
    ELSE SubSeq(docs, 1, Max({Len(docs) + k, 0}))

\* get_vectorstore() on a process that has not loaded the index
get_vectorstore(index) ==
    IF index = Missing THEN Raise("FileNotFoundError") ELSE Ok(index)

\* mutant: the candidates are cut to k before they are filtered
filtered_similar_docs_cut_first(index, query, cands, where, k) ==
    LET vs == get_vectorstore(index)
        q_norm == preprocess_query(query, AppAliasFile)
    IN  IF ~vs.ok THEN vs
        ELSE IF q_norm.val = <<>> THEN Ok(<<>>)
        ELSE Ok(IF where # <<>> THEN Kept(Prefix(cands, k), where, 1, <<>>)
                ELSE Prefix(cands, k))

\* lines 74-94; cands is what the similarity search returns for q_norm
filtered_similar_docs(index, query, cands, where, k) ==
    LET vs == get_vectorstore(index)
        q_norm == preprocess_query(query, AppAliasFile)
    IN  IF ~vs.ok THEN vs
        ELSE IF q_norm.val = <<>> THEN Ok(<<>>)
        ELSE Ok(Prefix(IF where # <<>> THEN Kept(cands, where, 1, <<>>) ELSE cands, k))

FilterInit ==
    /\ AppAtRest
    /\ call \in [op : {"filter"}, index : {Missing, MaxIndexChunks},
                 query : {<<" ">>, <<"a">>}, cands : CandidateLists,
                 where : Wheres, k : {-1, 0, 1, 2, CliK}, res : {NotRun}]

FilterCall ==
    /\ call.op = "filter" /\ call.res = NotRun
    /\ call' = [call EXCEPT !.res = filtered_similar_docs(call.index, call.query,
                                        call.cands, call.where, call.k)]
    /\ UNCHANGED appVars

SpecFilter == FilterInit /\ [][FilterCall]_vars

----------------------------------------------------------------------------
(* Claims about filtered_similar_docs (SpecFilter) *)

\* every predicate of the where mapping holds on the candidate's metadata
Passes(d, where) ==
    \A i \in 1..Len(where) : MetaGet(d, where[i][1]) \in where[i][2]

\* C14: with the index available and k >= 0, the result holds candidates
\* only, in candidate order and without repetition; each of them passes every
\* predicate; a passing candidate is in the result exactly when fewer than k
\* passing candidates precede it; and the result is empty when the
\* normalised query is empty.
C14_FirstKPassingInOrder ==
    (/\ call.op = "filter" /\ call.res # NotRun
     /\ call.index # Missing /\ call.k >= 0) =>
        /\ call.res.ok
        /\ LET res == call.res.val IN
           IF Strip(call.query) = <<>> THEN res = <<>>
           ELSE /\ \A i \in 1..Len(res) :
                      /\ res[i].pos \in 1..Len(call.cands)
                      /\ res[i] = call.cands[res[i].pos]
                      /\ Passes(res[i], call.where)
                /\ \A i, j \in 1..Len(res) : i < j => res[i].pos < res[j].pos
                /\ Len(res) <= call.k
                /\ \A p \in 1..Len(call.cands) :
                      Passes(call.cands[p], call.where) =>
                          ((\E i \in 1..Len(res) : res[i].pos = p)
                             <=> Cardinality({i \in 1..(p - 1) :
                                            Passes(call.cands[i], call.where)}) < call.k)

\* C14 witness: two predicates; a candidate without metadata is kept, a
\* failing candidate before it is dropped, and a passing one is cut off by k
C14_Witness ==
    /\ call.op = "filter" /\ call.res # NotRun /\ call.res.ok
    /\ Len(call.where) > 1 /\ call.k > 0
    /\ Len(call.res.val) = call.k
    /\ \E i \in 1..Len(call.res.val) : call.res.val[i].metadata = JNull
    /\ \E p \in 1..Len(call.cands) :
          /\ ~Passes(call.cands[p], call.where)
          /\ p < call.res.val[1].pos
    /\ \E p \in 1..Len(call.cands) :
          /\ Passes(call.cands[p], call.where)
          /\ \A i \in 1..Len(call.res.val) : call.res.val[i].pos # p

----------------------------------------------------------------------------
(* Claims about the order of the FAQ check and the alias normaliser, and    *)
(* about the index cache across failed and successful loads (Spec)          *)

\* C15 (as claimed): a submitted query equal, up to letter case and
\* surrounding blanks, to a stored FAQ variant is answered from the FAQ with
\* that entry's answer, without any index load or search.
C15_FaqBeforeAliases ==
    \A s \in Sessions :
        LET r == req[s] IN
        (r.pc # "idle") =>
            \A i \in 1..Len(AppItems) :
                AppItems[i][1] = Lower(Strip(r.query)) =>
                    /\ r.pc = "Answered"
                    /\ r.faq_ans = AppItems[i][2]
                    /\ r.loadTries = 0 /\ r.searches = 0

\* C17: a load attempted while the index is missing fails and stores
\* nothing; a load attempted while the index is present succeeds with the
\* disk's content; once a handle is cached it is never replaced, every
\* lookup made from then on returns it without a load, whatever the disk
\* holds, and its content stays what was read.
C17_FailedLoadNotCached ==
    [][/\ \A s \in Sessions :
            LET r == req[s]
                rn == req'[s]
            IN  /\ (r.pc = "vs_load" /\ rn.pc # "vs_load") =>
                      IF disk = Missing
                      THEN /\ rn.error = "IndexNotFound"
                           /\ vsCache' = vsCache /\ handles' = handles
                           /\ chainCache' = chainCache
                      ELSE /\ rn.error = "none" /\ rn.pc = "retrieve"
                           /\ vsCache' # 0
                           /\ handles'[rn.chain] = disk
                /\ (r.pc = "vs_lookup" /\ rn.pc # "vs_lookup" /\ vsCache # 0) =>
                      /\ rn.pc = "retrieve" /\ rn.chain = vsCache
                      /\ rn.loadTries = r.loadTries /\ handles' = handles
                /\ (r.pc = "retrieve" /\ rn.pc # "retrieve" /\ vsCache # 0) =>
                      /\ rn.pc = "check_ctx" /\ rn.vs = vsCache
                      /\ rn.loadTries = r.loadTries /\ handles' = handles
       /\ vsCache # 0 =>
            /\ vsCache' = vsCache
            /\ handles'[vsCache] = handles[vsCache]
      ]_vars

\* C17 witness: a request submitted after another had failed on the missing
\* index loaded the index once it was built; the index was then removed, and
\* a request submitted on the warm process with no index on disk was served
\* from the cached handle without a load
C17_Witness ==
    \E s, t \in Sessions :
        /\ req[t].afterFailure /\ req[t].cold /\ req[t].loadTries = 1
        /\ req[t].chain = vsCache /\ vsCache # 0
        /\ disk = Missing
        /\ req[s].missing /\ ~req[s].cold /\ req[s].loadTries = 0
        /\ req[s].pc = "check_ctx" /\ req[s].vs = vsCache
        /\ handles[vsCache] = MaxIndexChunks

====
